---- MODULE Spec2Model ----
(***************************************************************************)
(* Model of crawl.py: the tag crawl of the CKAN catalogue.                 *)
(*                                                                         *)
(* Strings are sequences of one-character strings, so that startswith,     *)
(* "in", concatenation and strip are computed as Python computes them.     *)
(* An optional value (None or a value) is a sequence of length 0 or 1.     *)
(***************************************************************************)
EXTENDS Integers, Sequences, FiniteSets, TLC

(* ------------------------------ bounds --------------------------------- *)
\* pages of results the catalogue holds for a tag: a listing page after
\* these carries no dataset link
MaxPages == 2
\* anchors under h2.dataset-heading on one listing page
MaxLinks == 1
\* calls of main() in one process
MaxRuns == 2
\* anchors of one section handed to the extraction rules
MaxAnchors == 3
\* rows of the metadata table handed to the extraction rules
MaxRows == 2

(* ------------------------ string primitives ---------------------------- *)
\* str.startswith
StartsWith(s, p) == Len(s) >= Len(p) /\ SubSeq(s, 1, Len(p)) = p

\* the "in" operator on two strings
Contains(s, sub) ==
    \E k \in 0..(Len(s) - Len(sub)) : SubSeq(s, k + 1, k + Len(sub)) = sub

IsSpace(c) == c \in {" ", "\t", "\n", "\r"}

RECURSIVE LStrip(_)
LStrip(s) == IF s # <<>> /\ IsSpace(Head(s)) THEN LStrip(Tail(s)) ELSE s

RECURSIVE RStrip(_)
RStrip(s) ==
    IF s # <<>> /\ IsSpace(s[Len(s)]) THEN RStrip(SubSeq(s, 1, Len(s) - 1)) ELSE s

\* get_text(strip=True) of an element holding one text node
Strip(s) == RStrip(LStrip(s))

LowerChar(c) ==
    CASE c = "L" -> "l"
      [] c = "P" -> "p"
      [] c = "A" -> "a"
      [] OTHER -> c

\* str.lower
Lower(s) == [k \in 1..Len(s) |-> LowerChar(s[k])]

Digits == <<"0","1","2","3","4","5","6","7","8","9">>

\* the decimal text an f-string gives a non-negative int
RECURSIVE Str(_)
Str(n) == IF n < 10 THEN <<Digits[n + 1]>> ELSE Str(n \div 10) \o <<Digits[(n % 10) + 1]>>

\* all sequences over S of length at most n
SeqUpTo(S, n) == UNION {[1..k -> S] : k \in 0..n}

(* --------------------------- configuration ----------------------------- *)
BASE_URL == <<"h","t","t","p","s",":","/","/","d","a","t","a",".","n","a","s","a",".","g","o","v">>
DatasetPath == <<"/","d","a","t","a","s","e","t","/">>
LISTING_URL == BASE_URL \o DatasetPath
ResourceSeg == <<"/","r","e","s","o","u","r","c","e","/">>
Http == <<"h","t","t","p">>
UnknownTitle == <<"U","n","k","n","o","w","n"," ","T","i","t","l","e">>
Landing == <<"l","a","n","d","i","n","g">>
LandingPageKey == <<"l","a","n","d","i","n","g","p","a","g","e">>

\* the listing address of one page of one tag
ListingUrl(tag, page_num) ==
    LISTING_URL \o <<"?","t","a","g","s","=">> \o tag \o <<"&","p","a","g","e","=">> \o Str(page_num)

(* ----------------------------- documents ------------------------------- *)
\* What requests.get + BeautifulSoup hand back: ok = FALSE stands for a
\* RequestException (connection error, timeout, non-2xx status).
\*   headings : the href of each anchor under h2.dataset-heading, <<>> when
\*              the anchor has no href attribute
\*   h1       : text of each h1 element
\*   notes    : text of each div.notes element
\*   tag_list : optional ul.tag-list, the text of each of its anchors
\*   resources: optional section#dataset-resources, the optional href of
\*              each of its anchors
\*   table    : optional table.table-striped, its rows
EmptyDoc ==
    [ok |-> TRUE, headings |-> <<>>, h1 |-> <<>>, notes |-> <<>>,
     tag_list |-> <<>>, resources |-> <<>>, table |-> <<>>]

\* the outcome of a request that raised
NoDoc == [EmptyDoc EXCEPT !.ok = FALSE]

(* --------------------------- fetch_page -------------------------------- *)
\* fetch_page without the test of line 34: every call is sent
fetch_page_nocheck(url, seen, resp) ==
    [soup |-> IF resp.ok THEN <<resp>> ELSE <<>>,
     seen |-> seen \cup {url},
     net  |-> <<[ev |-> "sleep", url |-> url], [ev |-> "get", url |-> url]>>]

\* fetch_page without line 38: the URL is never recorded
fetch_page_norecord(url, seen, resp) ==
    IF url \in seen
    THEN [soup |-> <<>>, seen |-> seen, net |-> <<>>]
    ELSE [soup |-> IF resp.ok THEN <<resp>> ELSE <<>>,
          seen |-> seen,
          net  |-> <<[ev |-> "sleep", url |-> url], [ev |-> "get", url |-> url]>>]

\* fetch_page recording the URL after the request, when it succeeded
fetch_page_record_on_success(url, seen, resp) ==
    IF url \in seen
    THEN [soup |-> <<>>, seen |-> seen, net |-> <<>>]
    ELSE [soup |-> IF resp.ok THEN <<resp>> ELSE <<>>,
          seen |-> IF resp.ok THEN seen \cup {url} ELSE seen,
          net  |-> <<[ev |-> "sleep", url |-> url], [ev |-> "get", url |-> url]>>]

\* fetch_page with the delay placed after the request
fetch_page_sleep_after(url, seen, resp) ==
    IF url \in seen
    THEN [soup |-> <<>>, seen |-> seen, net |-> <<>>]
    ELSE [soup |-> IF resp.ok THEN <<resp>> ELSE <<>>,
          seen |-> seen \cup {url},
          net  |-> <<[ev |-> "get", url |-> url], [ev |-> "sleep", url |-> url]>>]

\* fetch_page(url) against the visited set `seen`, when the transport would
\* answer `resp`.  soup is the optional document returned (<<>> is None),
\* seen the visited set afterwards, net the delay and the request the call
\* performed, in order.
fetch_page(url, seen, resp) ==
    IF url \in seen
    THEN [soup |-> <<>>, seen |-> seen, net |-> <<>>]
    ELSE [soup |-> IF resp.ok THEN <<resp>> ELSE <<>>,
          seen |-> seen \cup {url},
          net  |-> <<[ev |-> "sleep", url |-> url], [ev |-> "get", url |-> url]>>]

(* ------------------------ get_dataset_links ---------------------------- *)
\* a_tag.get("href", "")
HrefOrEmpty(a) == IF a = <<>> THEN <<>> ELSE a[1]

\* the condition of line 67
AcceptLink(href) ==
    /\ href # <<>>
    /\ StartsWith(href, DatasetPath)
    /\ href # DatasetPath
    /\ ~Contains(href, <<"?">>)

\* the loop of lines 65-69 over the selected anchors
RECURSIVE CollectLinks(_)
CollectLinks(anchors) ==
    IF anchors = <<>> THEN <<>>
    ELSE LET href == HrefOrEmpty(Head(anchors))
         IN  (IF AcceptLink(href) THEN <<BASE_URL \o href>> ELSE <<>>)
             \o CollectLinks(Tail(anchors))

\* what get_dataset_links returns for the optional soup fetch_page gave it
get_dataset_links(soup) ==
    IF soup = <<>> THEN <<>> ELSE CollectLinks(soup[1].headings)

(* -------------------------- scrape_dataset ----------------------------- *)
\* soup.find(...): the first matching element, as an optional value
\* the title without the literal of line 88
ExtractTitleNoFallback(doc) == IF doc.h1 # <<>> THEN Strip(doc.h1[1]) ELSE <<>>

\* lines 87-88
ExtractTitle(doc) == IF doc.h1 # <<>> THEN Strip(doc.h1[1]) ELSE UnknownTitle

\* lines 92-96
ExtractDescription(doc) == IF doc.notes # <<>> THEN Strip(doc.notes[1]) ELSE <<>>

\* the loop appending the anchor text as found
RECURSIVE TagLoopNoStrip(_)
TagLoopNoStrip(anchors) ==
    IF anchors = <<>> THEN <<>>
    ELSE LET tag_text == Head(anchors)
         IN  (IF Strip(tag_text) # <<>> THEN <<tag_text>> ELSE <<>>)
             \o TagLoopNoStrip(Tail(anchors))

\* the loop of lines 103-106 over the anchor texts of the tag list
RECURSIVE TagLoop(_)
TagLoop(anchors) ==
    IF anchors = <<>> THEN <<>>
    ELSE LET tag_text == Strip(Head(anchors))
         IN  (IF tag_text # <<>> THEN <<tag_text>> ELSE <<>>) \o TagLoop(Tail(anchors))

\* lines 100-106
ExtractTags(doc) == IF doc.tag_list # <<>> THEN TagLoop(doc.tag_list[1]) ELSE <<>>

\* lines 116-117: a root-relative href is made absolute
ResolveHref(href) == IF StartsWith(href, <<"/">>) THEN BASE_URL \o href ELSE href

\* line 119, applied to the href after lines 116-117
KeepResource(href) == Contains(href, ResourceSeg) \/ StartsWith(href, Http)

InSeq(x, s) == \E k \in 1..Len(s) : s[k] = x

\* the loop without the test of line 120
RECURSIVE ResourceLoopNoDedup(_, _)
ResourceLoopNoDedup(anchors, resource_links) ==
    IF anchors = <<>> THEN resource_links
    ELSE LET a == Head(anchors)
             href == ResolveHref(a[1])
         IN  IF a # <<>> /\ KeepResource(href)
             THEN ResourceLoopNoDedup(Tail(anchors), Append(resource_links, href))
             ELSE ResourceLoopNoDedup(Tail(anchors), resource_links)

\* the loop of lines 113-121; find_all("a", href=True) passes over the
\* anchors that have no href attribute
RECURSIVE ResourceLoop(_, _)
ResourceLoop(anchors, resource_links) ==
    IF anchors = <<>> THEN resource_links
    ELSE LET a == Head(anchors)
             href == ResolveHref(a[1])
         IN  IF a # <<>> /\ KeepResource(href) /\ ~InSeq(href, resource_links)
             THEN ResourceLoop(Tail(anchors), Append(resource_links, href))
             ELSE ResourceLoop(Tail(anchors), resource_links)

\* lines 110-121
ExtractResourceLinks(doc) ==
    IF doc.resources # <<>> THEN ResourceLoop(doc.resources[1], <<>>) ELSE <<>>

\* line 133
IsLandingLabel(label) == Contains(label, Landing) \/ Contains(label, LandingPageKey)

\* lines 135-139 for one value cell: link is the optional first anchor of
\* the cell, itself an optional href
LandingValue(td) ==
    IF td.link # <<>> /\ td.link[1] # <<>> /\ td.link[1][1] # <<>>
    THEN td.link[1][1]
    ELSE Strip(td.text)

\* the loop with a break after the first matching row
RECURSIVE LandingLoopFirst(_, _)
LandingLoopFirst(rows, landing_page) ==
    IF rows = <<>> THEN landing_page
    ELSE LET row == Head(rows)
         IN  IF row.th # <<>> /\ row.td # <<>> /\ IsLandingLabel(Lower(Strip(row.th[1])))
             THEN <<LandingValue(row.td[1])>>
             ELSE LandingLoopFirst(Tail(rows), landing_page)

\* the loop of lines 128-139; landing_page is optional (<<>> is None)
RECURSIVE LandingLoop(_, _)
LandingLoop(rows, landing_page) ==
    IF rows = <<>> THEN landing_page
    ELSE LET row == Head(rows)
         IN  IF row.th # <<>> /\ row.td # <<>> /\ IsLandingLabel(Lower(Strip(row.th[1])))
             THEN LandingLoop(Tail(rows), <<LandingValue(row.td[1])>>)
             ELSE LandingLoop(Tail(rows), landing_page)

\* lines 125-139
ExtractLandingPage(doc) ==
    IF doc.table # <<>> THEN LandingLoop(doc.table[1], <<>>) ELSE <<>>

\* the dictionary with an empty provenance list
MakeRecordNoSource(url, doc) ==
    [dataset_url    |-> url,
     title          |-> ExtractTitle(doc),
     description    |-> ExtractDescription(doc),
     tags           |-> ExtractTags(doc),
     resource_links |-> ExtractResourceLinks(doc),
     landing_page   |-> ExtractLandingPage(doc),
     text_sources   |-> <<>>]

\* the dictionary of lines 141-149
MakeRecord(url, doc) ==
    [dataset_url    |-> url,
     title          |-> ExtractTitle(doc),
     description    |-> ExtractDescription(doc),
     tags           |-> ExtractTags(doc),
     resource_links |-> ExtractResourceLinks(doc),
     landing_page   |-> ExtractLandingPage(doc),
     text_sources   |-> <<url>>]

\* scrape_dataset without lines 80-81: a record is built in any case
scrape_dataset_always(url, soup) ==
    <<MakeRecord(url, IF soup = <<>> THEN EmptyDoc ELSE soup[1])>>

\* what scrape_dataset returns for the optional soup fetch_page gave it
scrape_dataset(url, soup) == IF soup = <<>> THEN <<>> ELSE <<MakeRecord(url, soup[1])>>

(* ------------------------------ inputs --------------------------------- *)
\* values of --tag
Tags == {<<"x">>, <<"y">>}

\* optional hrefs an anchor under h2.dataset-heading may carry
HeadingAnchors ==
    { <<>>,
      << <<"/","d","a","t","a","s","e","t","/","a">> >>,
      << <<"/","d","a","t","a","s","e","t","/","b">> >>,
      << <<"/","d","a","t","a","s","e","t","/">> >>,
      << <<"/","d","a","t","a","s","e","t","/","a","?","x">> >>,
      << <<"/","o","t","h","e","r">> >> }

\* what the transport may answer for a listing address
ListingResponses ==
    {[EmptyDoc EXCEPT !.headings = hs] : hs \in SeqUpTo(HeadingAnchors, MaxLinks)}
        \cup {NoDoc}

\* what the transport may answer for page n of a tag
PageResponses(n) == IF n <= MaxPages THEN ListingResponses ELSE {EmptyDoc, NoDoc}

\* a detail page carrying every section
FullDoc ==
    [ok |-> TRUE, headings |-> <<>>,
     h1 |-> << <<" ","M","a","r","s"," ">> >>,
     notes |-> << <<"n","o","t","e","s">> >>,
     tag_list |-> << << <<"M","a","r","s">>, <<>>, <<" ","R","o","v","e","r"," ">> >> >>,
     resources |-> << << << <<"/","r","e","s","o","u","r","c","e","/","a">> >>,
                         << <<"/","o","t","h","e","r">> >>,
                         << <<"#">> >> >> >>,
     table |-> << << [th |-> << <<"L","a","n","d","i","n","g"," ","P","a","g","e">> >>,
                      td |-> << [text |-> <<"o","l","d">>, link |-> <<>>] >>],
                     [th |-> << <<"L","a","n","d","i","n","g"," ","P","a","g","e">> >>,
                      td |-> << [text |-> <<"t">>, link |-> << << <<"n","e","w">> >> >>] >>] >> >>]

\* what the transport may answer for a detail address
ItemResponses == {EmptyDoc, FullDoc, NoDoc}

(* ------------------------------- state --------------------------------- *)
VARIABLES
    pc,               \* where main stands: "idle", "collect", "open", "scrape", "done"
    runs,             \* calls of main() made so far in this process
    seen_urls,        \* the module-level visited set
    tag,              \* args.tag
    page_num,         \* the page counter of step 1
    all_dataset_urls, \* the links collected so far
    idx,              \* position of the for loop of step 2 (the next i)
    records_written,  \* the counter of step 2
    out,              \* content of the file args.out, one record per line
    out_open,         \* whether the handle f is open
    console,          \* the counts printed by lines 183 and 206
    calls,            \* the fetch_page calls of the current run, in order
    out_before,       \* lines args.out held when main was entered
    x_doc,            \* a document handed to the extraction rules alone
    x_rec             \* the optional record they produced for it

vars == <<pc, runs, seen_urls, tag, page_num, all_dataset_urls, idx,
          records_written, out, out_open, console, calls, out_before,
          x_doc, x_rec>>

crawl_vars == <<pc, runs, seen_urls, tag, page_num, all_dataset_urls, idx,
                records_written, out, out_open, console, calls, out_before>>

\* the module as loaded: seen_urls = set(), main not yet called
Init ==
    /\ pc = "idle"
    /\ runs = 0
    /\ seen_urls = {}
    /\ tag = <<>>
    /\ page_num = 1
    /\ all_dataset_urls = <<>>
    /\ idx = 1
    /\ records_written = 0
    /\ out = <<>>
    /\ out_open = FALSE
    /\ console = <<>>
    /\ calls = <<>>
    /\ out_before = 0
    /\ x_doc = EmptyDoc
    /\ x_rec = <<>>

(* ------------------------------- main ---------------------------------- *)
\* lines 153-169: main() is entered (by the script, or again by a caller
\* that imported the module); its locals get their starting values
MainStart ==
    /\ pc \in {"idle", "done"}
    /\ runs < MaxRuns
    /\ \E t \in Tags : tag' = t
    /\ runs' = runs + 1
    /\ pc' = "collect"
    /\ page_num' = 1
    /\ all_dataset_urls' = <<>>
    /\ idx' = 1
    /\ records_written' = 0
    /\ console' = <<>>
    /\ calls' = <<>>
    /\ out_before' = Len(out)
    /\ UNCHANGED <<seen_urls, out, out_open, x_doc, x_rec>>

\* assignment in place of extend
ExtendReplace(urls, links) == links

\* the links of a page put in front of the list
ExtendFront(urls, links) == links \o urls

\* line 179
Extend(urls, links) == urls \o links

\* the counter advanced by two
NextPageSkip(n) == n + 2

\* line 181
NextPage(n) == n + 1

\* one iteration of the while loop of lines 171-181, and on break line 183
CollectPage ==
    /\ pc = "collect"
    /\ \E resp \in PageResponses(page_num) :
         LET url   == ListingUrl(tag, page_num)
             r     == fetch_page(url, seen_urls, resp)
             links == get_dataset_links(r.soup)
         IN  /\ seen_urls' = r.seen
             /\ calls' = Append(calls, [kind |-> "listing", url |-> url,
                                        doc |-> r.soup # <<>>, net |-> r.net,
                                        links |-> links])
             /\ IF links = <<>>
                THEN /\ pc' = "open"
                     /\ console' = Append(console,
                                          [label |-> "collected", n |-> Len(all_dataset_urls)])
                     /\ UNCHANGED <<all_dataset_urls, page_num>>
                ELSE /\ all_dataset_urls' = Extend(all_dataset_urls, links)
                     /\ page_num' = NextPage(page_num)
                     /\ UNCHANGED <<pc, console>>
    /\ UNCHANGED <<runs, tag, idx, records_written, out, out_open, out_before,
                   x_doc, x_rec>>

\* the file opened in mode "a": its content is kept
OpenAppend(f) == f

\* line 189: open(args.out, "w") empties the file
OpenTruncate(f) == <<>>

\* lines 187-189: the counter is set and args.out is opened in mode "w"
OpenOut ==
    /\ pc = "open"
    /\ records_written' = 0
    /\ out' = OpenTruncate(out)
    /\ out_open' = TRUE
    /\ idx' = 1
    /\ pc' = "scrape"
    /\ UNCHANGED <<runs, seen_urls, tag, page_num, all_dataset_urls, console, calls,
                   out_before, x_doc, x_rec>>

\* the line put in front of the file content
WriteLineFront(f, record) == <<record>> \o f

\* lines 197-198: json.dumps of the dictionary, written as one more line
WriteLine(f, record) == Append(f, record)

\* the loop left at the first item that gave no record
AfterItemBreak(i, record, urls) == IF record = <<>> THEN Len(urls) + 1 ELSE i + 1

\* line 190: the for loop moves to the next position whatever scrape_dataset
\* returned
AfterItem(i, record, urls) == i + 1

\* one iteration of the for loop of lines 190-202
ScrapeItem ==
    /\ pc = "scrape"
    /\ idx <= Len(all_dataset_urls)
    /\ \E resp \in ItemResponses :
         LET dataset_url == all_dataset_urls[idx]
             r      == fetch_page(dataset_url, seen_urls, resp)
             record == scrape_dataset(dataset_url, r.soup)
         IN  /\ seen_urls' = r.seen
             /\ calls' = Append(calls, [kind |-> "item", url |-> dataset_url,
                                        doc |-> r.soup # <<>>, net |-> r.net,
                                        links |-> <<>>])
             /\ IF record # <<>>
                THEN /\ out' = WriteLine(out, record[1])
                     /\ records_written' = records_written + 1
                ELSE UNCHANGED <<out, records_written>>
             /\ idx' = AfterItem(idx, record, all_dataset_urls)
    /\ UNCHANGED <<pc, runs, tag, page_num, all_dataset_urls, out_open, console,
                   out_before, x_doc, x_rec>>

\* the for loop is exhausted: the with block closes f, lines 205-207 print
Finish ==
    /\ pc = "scrape"
    /\ idx > Len(all_dataset_urls)
    /\ out_open' = FALSE
    /\ console' = Append(console, [label |-> "written", n |-> records_written])
    /\ pc' = "done"
    /\ UNCHANGED <<runs, seen_urls, tag, page_num, all_dataset_urls, idx,
                   records_written, out, calls, out_before, x_doc, x_rec>>

Next == MainStart \/ CollectPage \/ OpenOut \/ ScrapeItem \/ Finish

Spec == Init /\ [][Next]_vars

(* ------------------------ the script, run once ------------------------ *)
\* lines 210-211: run as a script, the module calls main() once
MainOnce == runs = 0 /\ MainStart

NextScript == MainOnce \/ CollectPage \/ OpenOut \/ ScrapeItem \/ Finish

\* one thread with no cancellation: a statement that can run does run
SpecScript == Init /\ [][NextScript]_vars /\ WF_vars(NextScript)

(* ---------------------- the extraction rules alone --------------------- *)
\* optional hrefs an anchor of section#dataset-resources may carry
ResourceAnchors ==
    { <<>>,
      << <<"/","r","e","s","o","u","r","c","e","/","a">> >>,
      << BASE_URL \o <<"/","r","e","s","o","u","r","c","e","/","a">> >>,
      << <<"/","o","t","h","e","r">> >>,
      << <<"#">> >>,
      << <<"x","/","r","e","s","o","u","r","c","e","/","b">> >> }

\* documents whose resources section holds up to MaxAnchors anchors
ResourceDocs ==
    {[EmptyDoc EXCEPT !.resources = <<as>>] : as \in SeqUpTo(ResourceAnchors, MaxAnchors)}

\* rows table.table-striped may hold: th and td are optional cells, the
\* link of a value cell is its optional first anchor
LandingRows ==
    { [th |-> << <<"L","a","n","d","i","n","g"," ","P","a","g","e">> >>, td |-> << [text |-> <<" ","o","l","d","\n">>, link |-> <<>>] >>],
      [th |-> << <<"L","a","n","d","i","n","g"," ","P","a","g","e">> >>, td |-> << [text |-> <<"t">>, link |-> << << <<"n","e","w">> >> >>] >>],
      [th |-> << <<"L","a","n","d","i","n","g"," ","P","a","g","e">> >>, td |-> << [text |-> <<"u">>, link |-> << << <<>> >> >>] >>],
      [th |-> << <<"t","h","e"," ","l","a","n","d","i","n","g","P","a","g","e">> >>, td |-> << [text |-> <<"v">>, link |-> << <<>> >>] >>],
      [th |-> << <<"T","i","t","l","e">> >>, td |-> << [text |-> <<"w">>, link |-> << << <<"z">> >> >>] >>],
      [th |-> << <<"L","a","n","d","i","n","g"," ","P","a","g","e">> >>, td |-> <<>>],
      [th |-> <<>>, td |-> << [text |-> <<"q">>, link |-> <<>>] >>] }

\* documents whose metadata table holds up to MaxRows rows
LandingDocs ==
    {[EmptyDoc EXCEPT !.table = <<rows>>] : rows \in SeqUpTo(LandingRows, MaxRows)}

\* texts an anchor of ul.tag-list may hold
TagTexts == { <<"M","a","r","s">>, <<>>, <<" ","\n">>, <<" "," ","R","o","v","e","r"," "," ">>, <<"R","o","v","e","r">> }

\* documents whose tag list holds up to MaxAnchors anchors
TagDocs ==
    {[EmptyDoc EXCEPT !.tag_list = <<as>>] : as \in SeqUpTo(TagTexts, MaxAnchors)}

\* documents in which each of the five sections is either absent or as in
\* FullDoc
SectionDocs ==
    {[ok |-> TRUE, headings |-> <<>>, h1 |-> h, notes |-> n, tag_list |-> tl,
      resources |-> r, table |-> tb] :
        h \in {<<>>, FullDoc.h1}, n \in {<<>>, FullDoc.notes},
        tl \in {<<>>, FullDoc.tag_list}, r \in {<<>>, FullDoc.resources},
        tb \in {<<>>, FullDoc.table}}

ExtractDocs == ResourceDocs \cup LandingDocs \cup TagDocs \cup SectionDocs

\* the address of the page the rules are applied to
XUrl == BASE_URL \o <<"/","d","a","t","a","s","e","t","/","a">>

InitExtract ==
    /\ pc = "idle"
    /\ runs = 0
    /\ seen_urls = {}
    /\ tag = <<>>
    /\ page_num = 1
    /\ all_dataset_urls = <<>>
    /\ idx = 1
    /\ records_written = 0
    /\ out = <<>>
    /\ out_open = FALSE
    /\ console = <<>>
    /\ calls = <<>>
    /\ out_before = 0
    /\ x_doc \in ExtractDocs
    /\ x_rec = <<>>

\* lines 83-149 applied to a document fetch_page returned
Extract ==
    /\ x_rec = <<>>
    /\ x_rec' = scrape_dataset(XUrl, <<x_doc>>)
    /\ UNCHANGED <<x_doc, crawl_vars>>

NextExtract == Extract

SpecExtract == InitExtract /\ [][NextExtract]_vars

(* ------------------------- observations -------------------------------- *)
ListingCalls == SelectSeq(calls, LAMBDA c : c.kind = "listing")
ItemCalls == SelectSeq(calls, LAMBDA c : c.kind = "item")

\* the number of requests.get calls made for u in the current run
CountGets(u) ==
    Cardinality({p \in {<<i, j>> : i \in 1..Len(calls), j \in 1..2} :
                    /\ p[2] <= Len(calls[p[1]].net)
                    /\ calls[p[1]].net[p[2]] = [ev |-> "get", url |-> u]})

CalledUrls == {calls[i].url : i \in 1..Len(calls)}

Occurrences(s, x) == Cardinality({k \in 1..Len(s) : s[k] = x})

OutUrls == [k \in 1..Len(out) |-> out[k].dataset_url]

RECURSIVE Concat(_)
Concat(ss) == IF ss = <<>> THEN <<>> ELSE Head(ss) \o Concat(Tail(ss))

RECURSIVE IsSubseq(_, _)
IsSubseq(s, t) ==
    IF s = <<>> THEN TRUE
    ELSE IF t = <<>> THEN FALSE
    ELSE IF Head(s) = Head(t) THEN IsSubseq(Tail(s), Tail(t))
    ELSE IsSubseq(s, Tail(t))

\* the j-th smallest element of a set of positions
Nth(S, j) == CHOOSE k \in S : Cardinality({m \in S : m < k}) = j - 1

\* the delays and requests of the current run, in order
NetLog == Concat([k \in 1..Len(calls) |-> calls[k].net])

\* the positions of the discovered sequence the for loop has finished
Processed == SubSeq(all_dataset_urls, 1, idx - 1)

(* ------------------------------ claims --------------------------------- *)
\* C1: in one run, whatever the sequence of fetch_page calls (listing and
\* item alike), requests.get is called at most once for any URL.
C1_GetAtMostOnce == \A u \in CalledUrls : CountGets(u) <= 1

\* a URL was handed to fetch_page twice in the run and requested once
C1_Witness ==
    \E i, j \in 1..Len(calls) :
        i < j /\ calls[i].url = calls[j].url /\ CountGets(calls[i].url) = 1

\* C2: a fetch_page call for a URL that is in the visited set, or that an
\* earlier call of the run was made for (whether that call got a document or
\* a transport failure), returns None, makes no request and leaves the
\* visited set as it was.
C2_SecondFetchSkipped ==
    [][Len(calls') = Len(calls) + 1 =>
        LET c == calls'[Len(calls')]
        IN  (c.url \in seen_urls \/ c.url \in CalledUrls) =>
                (~c.doc /\ c.net = <<>> /\ seen_urls' = seen_urls)]_vars

\* the run holds a call skipped without a request for a URL whose first
\* fetch ended in a transport failure
C2_Witness ==
    \E i, j \in 1..Len(calls) :
        /\ i < j
        /\ calls[i].url = calls[j].url
        /\ calls[i].net # <<>> /\ ~calls[i].doc
        /\ calls[j].net = <<>> /\ ~calls[j].doc
        /\ calls[j].url \in seen_urls

\* C3: the listing calls of a run are those of pages 1, 2, ..., k in that
\* order, every page before the last call gave links, collection ends with
\* the first page that gives none, no listing call follows it, and the
\* collected sequence is the concatenation of the links of pages 1..k-1.
C3_Pagination ==
    LET L == ListingCalls
        k == Len(L)
        PageLinks == [j \in 1..k |-> L[j].links]
    IN  /\ \A j \in 1..k : L[j].url = ListingUrl(tag, j)
        /\ \A j \in 1..(k - 1) : L[j].links # <<>>
        /\ \A i, j \in 1..Len(calls) :
              (i < j /\ calls[i].kind = "item") => calls[j].kind = "item"
        /\ pc = "idle" => k = 0
        /\ pc = "collect" =>
              /\ k = page_num - 1
              /\ k >= 1 => L[k].links # <<>>
              /\ all_dataset_urls = Concat(PageLinks)
        /\ pc \in {"open", "scrape", "done"} =>
              /\ k >= 1
              /\ k = page_num
              /\ L[k].links = <<>>
              /\ all_dataset_urls = Concat(SubSeq(PageLinks, 1, k - 1))

\* a completed run whose pages 1 and 2 gave links and whose page 3 gave none
C3_Witness ==
    /\ pc = "done"
    /\ Len(ListingCalls) = 3
    /\ ListingCalls[1].links # <<>>
    /\ ListingCalls[2].links # <<>>
    /\ Len(ItemCalls) = Len(all_dataset_urls)

\* C4 as stated: an item URL that occurs twice in the discovered sequence is
\* requested twice and written twice by the completed run.
C4_FetchedAndEmittedTwice ==
    pc = "done" =>
        \A u \in {all_dataset_urls[k] : k \in 1..Len(all_dataset_urls)} :
            Occurrences(all_dataset_urls, u) = 2 =>
                (CountGets(u) = 2 /\ Occurrences(OutUrls, u) = 2)

\* C4 amended: an item URL that occurs more than once in the discovered
\* sequence is requested at most once and written at most once; every call
\* for it after the first makes no request and yields no record.
C4_DuplicateSkipped ==
    pc \in {"scrape", "done"} =>
        \A u \in {Processed[k] : k \in 1..Len(Processed)} :
            Occurrences(Processed, u) >= 2 =>
                /\ CountGets(u) <= 1
                /\ Occurrences(OutUrls, u) <= 1
                /\ \A i, j \in 1..Len(ItemCalls) :
                      (i < j /\ ItemCalls[i].url = u /\ ItemCalls[j].url = u) =>
                          (ItemCalls[j].net = <<>> /\ ~ItemCalls[j].doc)

\* a completed run in which a URL listed on two pages was fetched with
\* success at its first position and written once
C4_Witness ==
    /\ pc = "done"
    /\ Len(ListingCalls) = 3
    /\ \E u \in {all_dataset_urls[k] : k \in 1..Len(all_dataset_urls)} :
          /\ InSeq(u, ListingCalls[1].links)
          /\ InSeq(u, ListingCalls[2].links)
          /\ CountGets(u) = 1
          /\ Occurrences(OutUrls, u) = 1

\* C5: the for loop calls fetch_page once for each position of the
\* discovered sequence, in order, whatever the earlier outcomes: the item
\* calls made so far are exactly the positions before the loop index, and
\* all of them once the run has completed.
C5_OneCallPerPosition ==
    LET urls == [k \in 1..Len(ItemCalls) |-> ItemCalls[k].url]
    IN  /\ pc \in {"idle", "collect", "open"} => urls = <<>>
        /\ pc = "scrape" => (idx <= Len(all_dataset_urls) + 1 /\ urls = Processed)
        /\ pc = "done" => urls = all_dataset_urls

\* a completed run in which an item's request failed and a later item was
\* fetched with success
C5_Witness ==
    /\ pc = "done"
    /\ \E i, j \in 1..Len(ItemCalls) :
          /\ i < j
          /\ ItemCalls[i].net # <<>> /\ ~ItemCalls[i].doc
          /\ ItemCalls[j].doc

\* C6: while the output is being written and after, the dataset_url values
\* of its lines, in file order, are a subsequence of the discovered
\* sequence (of the positions processed so far).
C6_OutputInDiscoveryOrder ==
    pc \in {"scrape", "done"} => IsSubseq(OutUrls, Processed)

\* a completed run that wrote the records of two different items
C6_Witness ==
    /\ pc = "done"
    /\ Len(out) = 2
    /\ out[1].dataset_url # out[2].dataset_url

\* C7 as stated: the completed run has reported the discovered, written and
\* failed counts, written being the number of output lines, failed the
\* number of positions whose fetch returned None, and they add up.
C7_ThreeCountsReported ==
    pc = "done" =>
        \E d, w, f \in 1..Len(console) :
            /\ console[d].label = "collected" /\ console[d].n = Len(all_dataset_urls)
            /\ console[w].label = "written" /\ console[w].n = Len(out)
            /\ console[f].label = "failed"
            /\ console[f].n = Cardinality({k \in 1..Len(ItemCalls) : ~ItemCalls[k].doc})
            /\ console[w].n + console[f].n = console[d].n

\* C8: when the discovered URLs are pairwise distinct and every item fetch
\* returned a document, the completed run's output has one line per
\* discovered URL, in order, whose dataset_url is that URL and whose
\* text_sources is the one-element sequence holding it.
C8_EndToEnd ==
    (/\ pc = "done"
     /\ \A i, j \in 1..Len(all_dataset_urls) :
           i # j => all_dataset_urls[i] # all_dataset_urls[j]
     /\ \A k \in 1..Len(ItemCalls) : ItemCalls[k].doc)
    => /\ Len(out) = Len(all_dataset_urls)
       /\ records_written = Len(all_dataset_urls)
       /\ \A k \in 1..Len(out) :
             /\ out[k].dataset_url = all_dataset_urls[k]
             /\ out[k].text_sources = <<all_dataset_urls[k]>>

\* a completed run over two distinct item URLs, both fetched with success
C8_Witness ==
    /\ pc = "done"
    /\ Len(all_dataset_urls) = 2
    /\ all_dataset_urls[1] # all_dataset_urls[2]
    /\ \A k \in 1..Len(ItemCalls) : ItemCalls[k].doc
    /\ Len(out) = 2

\* C9 as stated: every run starts with an empty visited set, so that the
\* first listing call of every run (page 1) is sent over the network.
C9_EmptyAtRunStart ==
    /\ (pc = "collect" /\ calls = <<>>) => seen_urls = {}
    /\ Len(calls) >= 1 => calls[1].net # <<>>

\* C10 as stated: every resource link kept comes from an anchor whose href,
\* as written, is absolute or contains "/resource/".
C10_KeptOnlyAbsoluteOrResource ==
    x_rec # <<>> =>
        \A k \in 1..Len(x_rec[1].resource_links) :
            \E a \in {x_doc.resources[1][n] : n \in 1..Len(x_doc.resources[1])} :
                /\ a # <<>>
                /\ ResolveHref(a[1]) = x_rec[1].resource_links[k]
                /\ (StartsWith(a[1], Http) \/ Contains(a[1], ResourceSeg))

\* C11: landing_page is decided by the last row of the metadata table that
\* has a label cell and a value cell and whose lowercased label contains
\* "landing": the href of the value cell's anchor when that href is
\* non-empty, else the trimmed text of the value cell; it is None when no
\* row matches.
C11_LastLandingRowWins ==
    x_rec # <<>> =>
        LET rows == IF x_doc.table = <<>> THEN <<>> ELSE x_doc.table[1]
            M == {k \in 1..Len(rows) :
                    /\ rows[k].th # <<>>
                    /\ rows[k].td # <<>>
                    /\ Contains(Lower(rows[k].th[1]), Landing)}
        IN  IF M = {} THEN x_rec[1].landing_page = <<>>
            ELSE LET last == CHOOSE k \in M : \A m \in M : m <= k
                     td == rows[last].td[1]
                     HasHref == td.link # <<>> /\ td.link[1] # <<>> /\ Len(td.link[1][1]) > 0
                 IN  x_rec[1].landing_page =
                         << IF HasHref THEN td.link[1][1] ELSE Strip(td.text) >>

\* a table of two matching rows, plain text first and an anchor second, gave
\* the href of the second
C11_Witness ==
    /\ x_rec # <<>>
    /\ x_doc.table # <<>>
    /\ Len(x_doc.table[1]) = 2
    /\ x_doc.table[1][1].td # <<>> /\ x_doc.table[1][1].td[1].link = <<>>
    /\ x_doc.table[1][1].th # <<>>
    /\ Contains(Lower(x_doc.table[1][1].th[1]), Landing)
    /\ x_doc.table[1][2].td # <<>> /\ x_doc.table[1][2].td[1].link = << << <<"n","e","w">> >> >>
    /\ x_doc.table[1][2].th # <<>>
    /\ Contains(Lower(x_doc.table[1][2].th[1]), Landing)
    /\ x_rec[1].landing_page = << <<"n","e","w">> >>

\* C12: the extracted tags are the trimmed texts of the tag-list anchors in
\* document order, without exactly those whose trimmed text is empty: the
\* j-th tag is the trimmed text of the j-th anchor that has one.
C12_TagsTrimmedInOrder ==
    x_rec # <<>> =>
        LET texts == IF x_doc.tag_list = <<>> THEN <<>> ELSE x_doc.tag_list[1]
            K == {k \in 1..Len(texts) : Strip(texts[k]) # <<>>}
            tags == x_rec[1].tags
        IN  /\ Len(tags) = Cardinality(K)
            /\ \A j \in 1..Len(tags) : tags[j] = Strip(texts[Nth(K, j)])
            /\ \A j \in 1..Len(tags) :
                  tags[j] # <<>> /\ ~IsSpace(tags[j][1]) /\ ~IsSpace(tags[j][Len(tags[j])])

\* the anchors "Mars", "", "  Rover  " gave the tags "Mars", "Rover"
C12_Witness ==
    /\ x_rec # <<>>
    /\ x_doc.tag_list = << << <<"M","a","r","s">>, <<>>, <<" "," ","R","o","v","e","r"," "," ">> >> >>
    /\ x_rec[1].tags = << <<"M","a","r","s">>, <<"R","o","v","e","r">> >>

\* C17: resource_links holds no value twice and lists the kept hrefs, as
\* resolved, in the order of their first occurrence in the section: the j-th
\* link is the resolved href of the j-th anchor that passes the filter and
\* whose resolved href no earlier anchor carries.
C17_ResourceLinksUnique ==
    x_rec # <<>> =>
        LET anchors == IF x_doc.resources = <<>> THEN <<>> ELSE x_doc.resources[1]
            H == {k \in 1..Len(anchors) : anchors[k] # <<>>}
            R(k) == ResolveHref(anchors[k][1])
            K == {k \in H : KeepResource(R(k)) /\ \A m \in H : m < k => R(m) # R(k)}
            links == x_rec[1].resource_links
        IN  /\ \A i, j \in 1..Len(links) : i # j => links[i] # links[j]
            /\ Len(links) = Cardinality(K)
            /\ \A j \in 1..Len(links) : links[j] = R(Nth(K, j))

\* "/resource/a" and its absolute form, which resolve to one URL, gave one
\* entry
C17_Witness ==
    /\ x_rec # <<>>
    /\ x_doc.resources # <<>>
    /\ Len(x_doc.resources[1]) >= 2
    /\ x_doc.resources[1][1] = << <<"/","r","e","s","o","u","r","c","e","/","a">> >>
    /\ x_doc.resources[1][2] = << BASE_URL \o <<"/","r","e","s","o","u","r","c","e","/","a">> >>
    /\ Occurrences(x_rec[1].resource_links, BASE_URL \o <<"/","r","e","s","o","u","r","c","e","/","a">>) = 1

\* C14: extraction of a fetched document always gives a record of the seven
\* keys; an absent h1, notes element, tag list, resources section or
\* metadata table gives "Unknown Title", "", [], [] and None respectively,
\* and a section that is present gives its own value whatever the other
\* sections are.
C14_FallbackPerField ==
    x_rec # <<>> =>
        LET rec == x_rec[1]
        IN  /\ DOMAIN rec = {"dataset_url", "title", "description", "tags",
                             "resource_links", "landing_page", "text_sources"}
            /\ x_doc.h1 = <<>> => rec.title = UnknownTitle
            /\ x_doc.notes = <<>> => rec.description = <<>>
            /\ x_doc.tag_list = <<>> => rec.tags = <<>>
            /\ x_doc.resources = <<>> => rec.resource_links = <<>>
            /\ x_doc.table = <<>> => rec.landing_page = <<>>
            /\ x_doc.h1 = FullDoc.h1 => rec.title = <<"M","a","r","s">>
            /\ x_doc.notes = FullDoc.notes => rec.description = <<"n","o","t","e","s">>
            /\ x_doc.tag_list = FullDoc.tag_list => rec.tags = << <<"M","a","r","s">>, <<"R","o","v","e","r">> >>
            /\ x_doc.resources = FullDoc.resources =>
                  InSeq(BASE_URL \o <<"/","r","e","s","o","u","r","c","e","/","a">>, rec.resource_links)
            /\ x_doc.table = FullDoc.table => rec.landing_page = << <<"n","e","w">> >>

\* a document with no h1 and no table but the other sections gave the two
\* fallbacks next to the values of the sections it has
C14_Witness ==
    /\ x_rec # <<>>
    /\ x_doc.h1 = <<>> /\ x_doc.table = <<>>
    /\ x_doc.notes # <<>> /\ x_doc.tag_list # <<>> /\ x_doc.resources # <<>>
    /\ x_rec[1].title = UnknownTitle
    /\ x_rec[1].landing_page = <<>>
    /\ x_rec[1].description # <<>>
    /\ x_rec[1].tags # <<>>

\* C13: when a run has completed, the file holds the records that run
\* wrote, one line per item fetch that returned a document and in that
\* order, and nothing else; it is empty when the run discovered nothing or
\* every item fetch gave no document, whatever it held before.
C13_OutputReplaced ==
    pc = "done" =>
        LET W == SelectSeq(ItemCalls, LAMBDA c : c.doc)
        IN  /\ Len(out) = records_written
            /\ OutUrls = [k \in 1..Len(W) |-> W[k].url]
            /\ (all_dataset_urls = <<>> \/ \A k \in 1..Len(ItemCalls) : ~ItemCalls[k].doc)
                  => out = <<>>

\* a run entered over a file that held lines, completed with nothing
\* written: the file is empty
C13_Witness ==
    /\ pc = "done"
    /\ out_before > 0
    /\ records_written = 0
    /\ out = <<>>

\* C15: a listing call that ended in a transport failure gave no links, is
\* the last listing call of the run and is that of the page the counter
\* stands at; the run has gone on past collection with the links of the
\* pages before it, in page order, and a completed run has made its item
\* calls for exactly those.
C15_ListingFailureAbsorbed ==
    LET L == ListingCalls
    IN  \A k \in 1..Len(L) :
            (L[k].net # <<>> /\ ~L[k].doc) =>
                /\ L[k].links = <<>>
                /\ k = Len(L)
                /\ page_num = k
                /\ L[k].url = ListingUrl(tag, k)
                /\ pc \in {"open", "scrape", "done"}
                /\ all_dataset_urls = Concat([j \in 1..(k - 1) |-> L[j].links])
                /\ pc = "done" =>
                      [j \in 1..Len(ItemCalls) |-> ItemCalls[j].url] = all_dataset_urls

\* a completed run whose page 2 failed and which then fetched the item of
\* page 1
C15_Witness ==
    /\ pc = "done"
    /\ Len(ListingCalls) = 2
    /\ ListingCalls[2].net # <<>> /\ ~ListingCalls[2].doc
    /\ ListingCalls[1].links # <<>>
    /\ Len(ItemCalls) >= 1

\* C16: in every fetch_page call each request comes right after a delay of
\* the same call, whether the call then returned a document or not; a call
\* for a URL already fetched in the run has neither; so a delay lies between
\* any two requests of the run.
C16_DelayBeforeEveryGet ==
    /\ \A i \in 1..Len(calls) :
          LET net == calls[i].net
          IN  /\ \A j \in 1..Len(net) :
                    net[j].ev = "get" => (j > 1 /\ net[j - 1].ev = "sleep")
              /\ Cardinality({j \in 1..Len(net) : net[j].ev = "sleep"})
                    = Cardinality({j \in 1..Len(net) : net[j].ev = "get"})
              /\ (\E m \in 1..(i - 1) : calls[m].url = calls[i].url) => net = <<>>
              /\ calls[i].doc => \E j \in 1..Len(net) : net[j].ev = "get"
    /\ LET log == NetLog
           G == {p \in 1..Len(log) : log[p].ev = "get"}
       IN  \A p, q \in G :
               p < q => \E r \in (p + 1)..(q - 1) : log[r].ev = "sleep"

\* a run with a request that got a document, one that failed, and a call
\* skipped with no delay
C16_Witness ==
    \E i, j, k \in 1..Len(calls) :
        /\ calls[i].net # <<>> /\ calls[i].doc
        /\ calls[j].net # <<>> /\ ~calls[j].doc
        /\ calls[k].net = <<>>

\* C19: no two lines of the file carry the same dataset_url, and each line
\* written by the run carries the URL of an item call that made a request,
\* got a document and was the first call of the run for that URL.
C19_OneLinePerFetchedItem ==
    /\ \A i, j \in 1..Len(out) : i # j => out[i].dataset_url # out[j].dataset_url
    /\ pc \in {"scrape", "done"} =>
          \A k \in 1..Len(out) :
              \E c \in 1..Len(calls) :
                  /\ calls[c].kind = "item"
                  /\ calls[c].url = out[k].dataset_url
                  /\ calls[c].doc
                  /\ calls[c].net # <<>>
                  /\ \A m \in 1..(c - 1) : calls[m].url # calls[c].url

\* a completed run that found one URL twice, fetched it at its first
\* position and holds one line for it
C19_Witness ==
    /\ pc = "done"
    /\ Len(ItemCalls) = 2
    /\ ItemCalls[1].url = ItemCalls[2].url
    /\ ItemCalls[1].doc
    /\ Len(out) = 1
    /\ out[1].dataset_url = ItemCalls[1].url

\* C20 as stated: the listing addresses of a run and its discovered item
\* addresses are disjoint, the listing addresses of different pages differ,
\* no listing call of a run is skipped as already visited, and no item call
\* is skipped on account of a listing address.
C20_ListingNeverSkipped ==
    LET L == ListingCalls
    IN  /\ \A i \in 1..Len(L) : \A k \in 1..Len(all_dataset_urls) :
              L[i].url # all_dataset_urls[k]
        /\ \A i, j \in 1..Len(L) : i # j => L[i].url # L[j].url
        /\ \A i \in 1..Len(L) : L[i].net # <<>>
        /\ \A k \in 1..Len(ItemCalls) : \A i \in 1..Len(L) :
              ItemCalls[k].url # L[i].url

\* C18: while pages are being collected no item is fetched and the file is
\* not open; a page that gives links sends the loop to the next page and
\* only a page that gives none (empty or failed) ends collection; a run that
\* has completed had such a page, and once such a page has come the run
\* does reach its summary with the file closed.
C18_CompletesIffPageEmpty ==
    /\ [](pc = "collect" => (ItemCalls = <<>> /\ ~out_open))
    /\ [][pc = "collect" =>
            LET c == calls'[Len(calls')]
            IN  /\ Len(calls') = Len(calls) + 1
                /\ c.kind = "listing"
                /\ IF c.links = <<>>
                   THEN pc' = "open"
                   ELSE pc' = "collect" /\ page_num' = page_num + 1]_vars
    /\ [](pc = "done" =>
            (/\ ~out_open
             /\ ListingCalls # <<>>
             /\ ListingCalls[Len(ListingCalls)].links = <<>>))
    /\ (pc = "open") ~> (pc = "done")

\* a run completed after every page of the catalogue gave links and the
\* page after them gave none
C18_Witness ==
    /\ pc = "done"
    /\ ~out_open
    /\ Len(ListingCalls) = MaxPages + 1
    /\ records_written >= 1

====
